---- MODULE Spec2Model ----
(***************************************************************************)
(* PositionedRectangle and RelativePositionedRectangle of                  *)
(* jucer_RelativePositionedRectangle.h as a state machine.                 *)
(*                                                                         *)
(* A double is modelled as an exact rational <<n, d>> (d > 0, lowest       *)
(* terms): the arithmetic of the code is kept, its binary rounding error   *)
(* is not.  An int is an Integer.  A String is a sequence of one-character *)
(* strings.                                                                *)
(***************************************************************************)
EXTENDS Integers, Sequences, FiniteSets

VARIABLES rect, relativeToX, relativeToY, relativeToW, relativeToH,
          ctor, src, pc, op, pre, ref, arg, out, leafTargets

vars == <<rect, relativeToX, relativeToY, relativeToW, relativeToH,
          ctor, src, pc, op, pre, ref, arg, out, leafTargets>>

relVars == <<relativeToX, relativeToY, relativeToW, relativeToH>>

-----------------------------------------------------------------------------
(* Bounds of the exploration. *)

\* reference rectangles have extents 1..MaxRef
MaxRef == 3
\* reference rectangles and absolute rectangles have origins 0..MaxOrigin
MaxOrigin == 1
\* absolute rectangles passed to updateFrom have sizes -1..MaxAbs
MaxAbs == 2

-----------------------------------------------------------------------------
(* double arithmetic, as exact rationals *)

Abs(n) == IF n < 0 THEN -n ELSE n

RECURSIVE GCD(_, _)
GCD(a, b) == IF b = 0 THEN a ELSE GCD(b, a % b)

Norm(n, d) ==
    LET s == IF d < 0 THEN -1 ELSE 1
        g == GCD(Abs(n), Abs(d))
    IN  <<(s * n) \div g, (s * d) \div g>>

\* int -> double
D(i) == <<i, 1>>

RAdd(a, b) == Norm(a[1] * b[2] + b[1] * a[2], a[2] * b[2])
RSub(a, b) == Norm(a[1] * b[2] - b[1] * a[2], a[2] * b[2])
RMul(a, b) == Norm(a[1] * b[1], a[2] * b[2])
\* b # 0 at every use
RDiv(a, b) == Norm(a[1] * b[2], a[2] * b[1])

IsInt(a) == a[2] = 1

\* C++ int / int: truncation towards zero
CDiv(a, b) ==
    LET q == Abs(a) \div Abs(b)
    IN  IF (a < 0) = (b < 0) THEN q ELSE -q

\* juce::roundToInt: nearest integer, a tie goes to the even one
roundToInt(a) ==
    LET f == a[1] \div a[2]
        r == a[1] - f * a[2]
    IN  IF 2 * r < a[2] THEN f
        ELSE IF 2 * r > a[2] THEN f + 1
        ELSE IF f % 2 = 0 THEN f ELSE f + 1

jmax(a, b) == IF a < b THEN b ELSE a

-----------------------------------------------------------------------------
(* enum AnchorPoint, PositionMode, SizeMode *)

anchorAtLeftOrTop == 1
anchorAtRightOrBottom == 2
anchorAtCentre == 4

absoluteFromParentTopLeft == 8
absoluteFromParentBottomRight == 16
absoluteFromParentCentre == 32
proportionOfParentSize == 64

absoluteSize == 1
parentSizeMinusAbsolute == 2
proportionalSize == 4

AnchorPoint == {anchorAtLeftOrTop, anchorAtRightOrBottom, anchorAtCentre}
PositionMode == {absoluteFromParentTopLeft, absoluteFromParentBottomRight,
                 absoluteFromParentCentre, proportionOfParentSize}
SizeMode == {absoluteSize, parentSizeMinusAbsolute, proportionalSize}

\* (mode & bit) != 0, for a single-bit mask
HasBit(mode, bit) == (mode \div bit) % 2 = 1

\* a | b
RECURSIVE BitOr(_, _)
BitOr(a, b) ==
    IF a = 0 THEN b
    ELSE IF b = 0 THEN a
    ELSE 2 * BitOr(a \div 2, b \div 2) + (IF a % 2 = 1 \/ b % 2 = 1 THEN 1 ELSE 0)

\* mode & mask
RECURSIVE BitAnd(_, _)
BitAnd(a, b) ==
    IF a = 0 \/ b = 0 THEN 0
    ELSE 2 * BitAnd(a \div 2, b \div 2) + (IF a % 2 = 1 /\ b % 2 = 1 THEN 1 ELSE 0)

\* juce::Rectangle<int>
Rectangle(x, y, w, h) == [x |-> x, y |-> y, w |-> w, h |-> h]
EmptyRectangle == Rectangle(0, 0, 0, 0)
isEmpty(r) == r.w <= 0 \/ r.h <= 0

-----------------------------------------------------------------------------
(* juce::String and juce::StringArray, as far as this file uses them *)

DigitChars == <<"0", "1", "2", "3", "4", "5", "6", "7", "8", "9">>

IsDigit(c) == \E i \in 1..10 : DigitChars[i] = c

DigitVal(c) == (CHOOSE i \in 1..10 : DigitChars[i] = c) - 1

containsChar(s, c) == \E i \in 1..Len(s) : s[i] = c

removeCharacters(s, chars) == SelectSeq(s, LAMBDA c : c \notin chars)

\* s.upToFirstOccurrenceOf (c, false, false): the whole string when c is absent
upToFirstOccurrenceOf(s, c) ==
    IF containsChar(s, c)
    THEN SubSeq(s, 1, (CHOOSE i \in 1..Len(s) :
                          s[i] = c /\ \A j \in 1..(i - 1) : s[j] # c) - 1)
    ELSE s

\* the run of digits of s from position i: <<value, number of digits>>
RECURSIVE ReadDigits(_, _, _, _)
ReadDigits(s, i, acc, cnt) ==
    IF i <= Len(s) /\ IsDigit(s[i])
    THEN ReadDigits(s, i + 1, 10 * acc + DigitVal(s[i]), cnt + 1)
    ELSE <<acc, cnt>>

RECURSIVE Pow10(_)
Pow10(k) == IF k = 0 THEN 1 ELSE 10 * Pow10(k - 1)

\* String::getDoubleValue: optional sign, digits, optional '.' and digits; the
\* text after them is ignored, and a text with no number gives 0
getDoubleValue(s) ==
    LET neg  == Len(s) >= 1 /\ s[1] = "-"
        i0   == IF Len(s) >= 1 /\ s[1] \in {"-", "+"} THEN 2 ELSE 1
        ip   == ReadDigits(s, i0, 0, 0)
        i1   == i0 + ip[2]
        dot  == i1 <= Len(s) /\ s[i1] = "."
        fp   == IF dot THEN ReadDigits(s, i1 + 1, 0, 0) ELSE <<0, 0>>
        mag  == Norm(ip[1] * Pow10(fp[2]) + fp[1], Pow10(fp[2]))
    IN  IF neg THEN Norm(-mag[1], mag[2]) ELSE mag

RECURSIVE IntToString(_)
IntToString(n) ==
    IF n < 10 THEN <<DigitChars[n + 1]>>
    ELSE IntToString(n \div 10) \o <<DigitChars[(n % 10) + 1]>>

RECURSIVE StripZeros(_)
StripZeros(s) ==
    IF Len(s) > 0 /\ s[Len(s)] = "0" THEN StripZeros(SubSeq(s, 1, Len(s) - 1)) ELSE s

\* String << double, for a value with at most three decimals (all that
\* addPosDescription and addSizeDescription ever print)
FormatDouble(a) ==
    LET m    == (a[1] * 1000) \div a[2]
        mag  == Abs(m)
        frac == StripZeros(<<DigitChars[((mag \div 100) % 10) + 1],
                             DigitChars[((mag \div 10) % 10) + 1],
                             DigitChars[(mag % 10) + 1]>>)
    IN  (IF m < 0 THEN <<"-">> ELSE <<>>)
        \o IntToString(mag \div 1000)
        \o (IF frac = <<>> THEN <<>> ELSE <<".">> \o frac)

\* StringArray::addTokens (s, false): split at every space; an empty string
\* adds no token
RECURSIVE addTokens(_)
addTokens(s) ==
    IF s = <<>> THEN <<>>
    ELSE IF ~containsChar(s, " ") THEN <<s>>
    ELSE LET t == upToFirstOccurrenceOf(s, " ")
             rest == SubSeq(s, Len(t) + 2, Len(s))
         IN  <<t>> \o (IF rest = <<>> THEN <<<<>>>> ELSE addTokens(rest))

\* StringArray::operator[]: an index out of range gives an empty string
TokenAt(tokens, i) == IF i + 1 <= Len(tokens) THEN tokens[i + 1] ELSE <<>>

\* the tokens joined by single spaces
RECURSIVE JoinTokens(_)
JoinTokens(ts) ==
    IF ts = <<>> THEN <<>>
    ELSE IF Len(ts) = 1 THEN ts[1]
    ELSE ts[1] \o <<" ">> \o JoinTokens(Tail(ts))

-----------------------------------------------------------------------------
(* class PositionedRectangle *)

\* PositionedRectangle()
DefaultPositionedRectangle ==
    [x |-> D(0), y |-> D(0), w |-> D(0), h |-> D(0),
     xMode |-> BitOr(anchorAtLeftOrTop, absoluteFromParentTopLeft),
     yMode |-> BitOr(anchorAtLeftOrTop, absoluteFromParentTopLeft),
     wMode |-> absoluteSize, hMode |-> absoluteSize]

\* the text of roundToInt (value * scale) / (scale / unit)
Rounded(value, scale, shown) == FormatDouble(RDiv(D(roundToInt(RMul(value, D(scale)))), D(shown)))

\* addPosDescription with the 'R' and 'C' suffixes exchanged
addPosDescription_SuffixSlip(mode, value) ==
    (IF HasBit(mode, proportionOfParentSize)
     THEN Rounded(value, 100000, 1000) \o <<"%">>
     ELSE Rounded(value, 100, 100)
          \o (IF HasBit(mode, absoluteFromParentBottomRight) THEN <<"C">>
              ELSE IF HasBit(mode, absoluteFromParentCentre) THEN <<"R">>
              ELSE <<>>))
    \o (IF HasBit(mode, anchorAtRightOrBottom) THEN <<"r">>
        ELSE IF HasBit(mode, anchorAtCentre) THEN <<"c">>
        ELSE <<>>)

addPosDescription(mode, value) ==
    (IF HasBit(mode, proportionOfParentSize)
     THEN Rounded(value, 100000, 1000) \o <<"%">>
     ELSE Rounded(value, 100, 100)
          \o (IF HasBit(mode, absoluteFromParentBottomRight) THEN <<"R">>
              ELSE IF HasBit(mode, absoluteFromParentCentre) THEN <<"C">>
              ELSE <<>>))
    \o (IF HasBit(mode, anchorAtRightOrBottom) THEN <<"r">>
        ELSE IF HasBit(mode, anchorAtCentre) THEN <<"c">>
        ELSE <<>>)

addSizeDescription(mode, value) ==
    IF mode = proportionalSize THEN Rounded(value, 100000, 1000) \o <<"%">>
    ELSE IF mode = parentSizeMinusAbsolute THEN Rounded(value, 100, 100) \o <<"M">>
    ELSE Rounded(value, 100, 100)

toString(r) ==
    addPosDescription(r.xMode, r.x) \o <<" ">>
    \o addPosDescription(r.yMode, r.y) \o <<" ">>
    \o addSizeDescription(r.wMode, r.w) \o <<" ">>
    \o addSizeDescription(r.hMode, r.h)

\* decodePosString with the anchor letters tested one after the other, each
\* adding its bit
decodePosString_BothAnchors(s) ==
    LET anchor == IF containsChar(s, "r") /\ containsChar(s, "c")
                  THEN BitOr(anchorAtRightOrBottom, anchorAtCentre)
                  ELSE IF containsChar(s, "r") THEN anchorAtRightOrBottom
                  ELSE IF containsChar(s, "c") THEN anchorAtCentre
                  ELSE anchorAtLeftOrTop
    IN  IF containsChar(s, "%")
        THEN [mode  |-> BitOr(anchor, proportionOfParentSize),
              value |-> RDiv(getDoubleValue(removeCharacters(s, {"%", "r", "c", "R", "C"})),
                             D(100))]
        ELSE [mode  |-> BitOr(anchor,
                              IF containsChar(s, "R") THEN absoluteFromParentBottomRight
                              ELSE IF containsChar(s, "C") THEN absoluteFromParentCentre
                              ELSE absoluteFromParentTopLeft),
              value |-> getDoubleValue(removeCharacters(s, {"r", "c", "R", "C"}))]

decodePosString(s) ==
    LET anchor == IF containsChar(s, "r") THEN anchorAtRightOrBottom
                  ELSE IF containsChar(s, "c") THEN anchorAtCentre
                  ELSE anchorAtLeftOrTop
    IN  IF containsChar(s, "%")
        THEN [mode  |-> BitOr(anchor, proportionOfParentSize),
              value |-> RDiv(getDoubleValue(removeCharacters(s, {"%", "r", "c", "R", "C"})),
                             D(100))]
        ELSE [mode  |-> BitOr(anchor,
                              IF containsChar(s, "R") THEN absoluteFromParentBottomRight
                              ELSE IF containsChar(s, "C") THEN absoluteFromParentCentre
                              ELSE absoluteFromParentTopLeft),
              value |-> getDoubleValue(removeCharacters(s, {"r", "c", "R", "C"}))]

\* decodeSizeString with the test for 'M' inverted
decodeSizeString_MSlip(s) ==
    IF containsChar(s, "%")
    THEN [mode  |-> proportionalSize,
          value |-> RDiv(getDoubleValue(upToFirstOccurrenceOf(s, "%")), D(100))]
    ELSE IF ~containsChar(s, "M")
    THEN [mode |-> parentSizeMinusAbsolute, value |-> getDoubleValue(s)]
    ELSE [mode |-> absoluteSize, value |-> getDoubleValue(s)]

decodeSizeString(s) ==
    IF containsChar(s, "%")
    THEN [mode  |-> proportionalSize,
          value |-> RDiv(getDoubleValue(upToFirstOccurrenceOf(s, "%")), D(100))]
    ELSE IF containsChar(s, "M")
    THEN [mode |-> parentSizeMinusAbsolute, value |-> getDoubleValue(s)]
    ELSE [mode |-> absoluteSize, value |-> getDoubleValue(s)]

\* PositionedRectangle (const String& stringVersion)
PositionedRectangleFromString(stringVersion) ==
    LET tokens == addTokens(stringVersion)
        px == decodePosString(TokenAt(tokens, 0))
        py == decodePosString(TokenAt(tokens, 1))
        sw == decodeSizeString(TokenAt(tokens, 2))
        sh == decodeSizeString(TokenAt(tokens, 3))
    IN  [x |-> px.value, y |-> py.value, w |-> sw.value, h |-> sh.value,
         xMode |-> px.mode, yMode |-> py.mode, wMode |-> sw.mode, hMode |-> sh.mode]

\* applyPosAndSize with the proportional position taken from the raw width
applyPosAndSize_WidthProportion(x_, w_, xMode_, wMode_, parentPos, parentSize) ==
    LET wOut == IF wMode_ = proportionalSize
                THEN D(roundToInt(RMul(w_, D(parentSize))))
                ELSE IF wMode_ = parentSizeMinusAbsolute
                THEN D(jmax(0, parentSize - roundToInt(w_)))
                ELSE D(roundToInt(w_))
        xPos == IF HasBit(xMode_, proportionOfParentSize)
                THEN RAdd(D(parentPos), RMul(w_, D(parentSize)))
                ELSE IF HasBit(xMode_, absoluteFromParentBottomRight)
                THEN RSub(D(parentPos + parentSize), x_)
                ELSE IF HasBit(xMode_, absoluteFromParentCentre)
                THEN RAdd(x_, D(parentPos + CDiv(parentSize, 2)))
                ELSE RAdd(x_, D(parentPos))
        xOut == IF HasBit(xMode_, anchorAtRightOrBottom) THEN RSub(xPos, wOut)
                ELSE IF HasBit(xMode_, anchorAtCentre) THEN RSub(xPos, RDiv(wOut, D(2)))
                ELSE xPos
    IN  <<xOut, wOut>>

\* applyPosAndSize with the parent's centre taken as parentSize / 2.0
applyPosAndSize_RealCentre(x_, w_, xMode_, wMode_, parentPos, parentSize) ==
    LET wOut == IF wMode_ = proportionalSize
                THEN D(roundToInt(RMul(w_, D(parentSize))))
                ELSE IF wMode_ = parentSizeMinusAbsolute
                THEN D(jmax(0, parentSize - roundToInt(w_)))
                ELSE D(roundToInt(w_))
        xPos == IF HasBit(xMode_, proportionOfParentSize)
                THEN RAdd(D(parentPos), RMul(x_, D(parentSize)))
                ELSE IF HasBit(xMode_, absoluteFromParentBottomRight)
                THEN RSub(D(parentPos + parentSize), x_)
                ELSE IF HasBit(xMode_, absoluteFromParentCentre)
                THEN RAdd(x_, RAdd(D(parentPos), RDiv(D(parentSize), D(2))))
                ELSE RAdd(x_, D(parentPos))
        xOut == IF HasBit(xMode_, anchorAtRightOrBottom) THEN RSub(xPos, wOut)
                ELSE IF HasBit(xMode_, anchorAtCentre) THEN RSub(xPos, RDiv(wOut, D(2)))
                ELSE xPos
    IN  <<xOut, wOut>>

\* one axis of the forward evaluation: <<xOut, wOut>>, both doubles
applyPosAndSize(x_, w_, xMode_, wMode_, parentPos, parentSize) ==
    LET wOut == IF wMode_ = proportionalSize
                THEN D(roundToInt(RMul(w_, D(parentSize))))
                ELSE IF wMode_ = parentSizeMinusAbsolute
                THEN D(jmax(0, parentSize - roundToInt(w_)))
                ELSE D(roundToInt(w_))
        xPos == IF HasBit(xMode_, proportionOfParentSize)
                THEN RAdd(D(parentPos), RMul(x_, D(parentSize)))
                ELSE IF HasBit(xMode_, absoluteFromParentBottomRight)
                THEN RSub(D(parentPos + parentSize), x_)
                ELSE IF HasBit(xMode_, absoluteFromParentCentre)
                THEN RAdd(x_, D(parentPos + CDiv(parentSize, 2)))
                ELSE RAdd(x_, D(parentPos))
        xOut == IF HasBit(xMode_, anchorAtRightOrBottom) THEN RSub(xPos, wOut)
                ELSE IF HasBit(xMode_, anchorAtCentre) THEN RSub(xPos, RDiv(wOut, D(2)))
                ELSE xPos
    IN  <<xOut, wOut>>

\* updatePosAndSize with the proportional branches guarded by parentSize != 0
updatePosAndSize_NonZeroGuard(xOld, wOld, x_, w_, xMode_, wMode_, parentPos, parentSize) ==
    LET wOut == IF wMode_ = proportionalSize
                THEN (IF parentSize # 0 THEN RDiv(w_, D(parentSize)) ELSE wOld)
                ELSE IF wMode_ = parentSizeMinusAbsolute
                THEN RSub(D(parentSize), w_)
                ELSE w_
        xa   == IF HasBit(xMode_, anchorAtRightOrBottom) THEN RAdd(x_, w_)
                ELSE IF HasBit(xMode_, anchorAtCentre) THEN RAdd(x_, RDiv(w_, D(2)))
                ELSE x_
        xOut == IF HasBit(xMode_, proportionOfParentSize)
                THEN (IF parentSize # 0
                      THEN RDiv(RSub(xa, D(parentPos)), D(parentSize))
                      ELSE xOld)
                ELSE IF HasBit(xMode_, absoluteFromParentBottomRight)
                THEN RSub(D(parentPos + parentSize), xa)
                ELSE IF HasBit(xMode_, absoluteFromParentCentre)
                THEN RSub(xa, D(parentPos + CDiv(parentSize, 2)))
                ELSE RSub(xa, D(parentPos))
    IN  <<xOut, wOut>>

\* updatePosAndSize with the centre anchor undone by the whole size
updatePosAndSize_AnchorSlip(xOld, wOld, x_, w_, xMode_, wMode_, parentPos, parentSize) ==
    LET wOut == IF wMode_ = proportionalSize
                THEN (IF parentSize > 0 THEN RDiv(w_, D(parentSize)) ELSE wOld)
                ELSE IF wMode_ = parentSizeMinusAbsolute
                THEN RSub(D(parentSize), w_)
                ELSE w_
        xa   == IF HasBit(xMode_, anchorAtRightOrBottom) THEN RAdd(x_, w_)
                ELSE IF HasBit(xMode_, anchorAtCentre) THEN RAdd(x_, w_)
                ELSE x_
        xOut == IF HasBit(xMode_, proportionOfParentSize)
                THEN (IF parentSize > 0
                      THEN RDiv(RSub(xa, D(parentPos)), D(parentSize))
                      ELSE xOld)
                ELSE IF HasBit(xMode_, absoluteFromParentBottomRight)
                THEN RSub(D(parentPos + parentSize), xa)
                ELSE IF HasBit(xMode_, absoluteFromParentCentre)
                THEN RSub(xa, D(parentPos + CDiv(parentSize, 2)))
                ELSE RSub(xa, D(parentPos))
    IN  <<xOut, wOut>>

\* updatePosAndSize with the parentSizeMinusAbsolute size as w_ - parentSize
updatePosAndSize_SignSlip(xOld, wOld, x_, w_, xMode_, wMode_, parentPos, parentSize) ==
    LET wOut == IF wMode_ = proportionalSize
                THEN (IF parentSize > 0 THEN RDiv(w_, D(parentSize)) ELSE wOld)
                ELSE IF wMode_ = parentSizeMinusAbsolute
                THEN RSub(w_, D(parentSize))
                ELSE w_
        xa   == IF HasBit(xMode_, anchorAtRightOrBottom) THEN RAdd(x_, w_)
                ELSE IF HasBit(xMode_, anchorAtCentre) THEN RAdd(x_, RDiv(w_, D(2)))
                ELSE x_
        xOut == IF HasBit(xMode_, proportionOfParentSize)
                THEN (IF parentSize > 0
                      THEN RDiv(RSub(xa, D(parentPos)), D(parentSize))
                      ELSE xOld)
                ELSE IF HasBit(xMode_, absoluteFromParentBottomRight)
                THEN RSub(D(parentPos + parentSize), xa)
                ELSE IF HasBit(xMode_, absoluteFromParentCentre)
                THEN RSub(xa, D(parentPos + CDiv(parentSize, 2)))
                ELSE RSub(xa, D(parentPos))
    IN  <<xOut, wOut>>

\* one axis of the inverse evaluation: <<xOut, wOut>>, the new raw values;
\* xOld and wOld are the raw values the reference parameters hold on entry
updatePosAndSize(xOld, wOld, x_, w_, xMode_, wMode_, parentPos, parentSize) ==
    LET wOut == IF wMode_ = proportionalSize
                THEN (IF parentSize > 0 THEN RDiv(w_, D(parentSize)) ELSE wOld)
                ELSE IF wMode_ = parentSizeMinusAbsolute
                THEN RSub(D(parentSize), w_)
                ELSE w_
        xa   == IF HasBit(xMode_, anchorAtRightOrBottom) THEN RAdd(x_, w_)
                ELSE IF HasBit(xMode_, anchorAtCentre) THEN RAdd(x_, RDiv(w_, D(2)))
                ELSE x_
        xOut == IF HasBit(xMode_, proportionOfParentSize)
                THEN (IF parentSize > 0
                      THEN RDiv(RSub(xa, D(parentPos)), D(parentSize))
                      ELSE xOld)
                ELSE IF HasBit(xMode_, absoluteFromParentBottomRight)
                THEN RSub(D(parentPos + parentSize), xa)
                ELSE IF HasBit(xMode_, absoluteFromParentCentre)
                THEN RSub(xa, D(parentPos + CDiv(parentSize, 2)))
                ELSE RSub(xa, D(parentPos))
    IN  <<xOut, wOut>>

\* getRectangleDouble: the four doubles, as a record
getRectangleDouble(r, target) ==
    LET ax == applyPosAndSize(r.x, r.w, r.xMode, r.wMode, target.x, target.w)
        ay == applyPosAndSize(r.y, r.h, r.yMode, r.hMode, target.y, target.h)
    IN  [x |-> ax[1], y |-> ay[1], w |-> ax[2], h |-> ay[2]]

getRectangle(r, target) ==
    LET ax == applyPosAndSize(r.x, r.w, r.xMode, r.wMode, target.x, target.w)
        ay == applyPosAndSize(r.y, r.h, r.yMode, r.hMode, target.y, target.h)
    IN  Rectangle(roundToInt(ax[1]), roundToInt(ay[1]), roundToInt(ax[2]), roundToInt(ay[2]))

updateFromDouble(r, newX, newY, newW, newH, target) ==
    LET ux == updatePosAndSize(r.x, r.w, newX, newW, r.xMode, r.wMode, target.x, target.w)
        uy == updatePosAndSize(r.y, r.h, newY, newH, r.yMode, r.hMode, target.y, target.h)
    IN  [r EXCEPT !.x = ux[1], !.w = ux[2], !.y = uy[1], !.h = uy[2]]

updateFrom(r, newPosition, targetSpaceToBeRelativeTo) ==
    LET t  == targetSpaceToBeRelativeTo
        ux == updatePosAndSize(r.x, r.w, D(newPosition.x), D(newPosition.w),
                               r.xMode, r.wMode, t.x, t.w)
        uy == updatePosAndSize(r.y, r.h, D(newPosition.y), D(newPosition.h),
                               r.yMode, r.hMode, t.y, t.h)
    IN  [r EXCEPT !.x = ux[1], !.w = ux[2], !.y = uy[1], !.h = uy[2]]

setModes(r, xAnchor, xMode_, yAnchor, yMode_, widthMode, heightMode, target) ==
    LET nx == BitOr(xAnchor, xMode_)
        ny == BitOr(yAnchor, yMode_)
        tx == applyPosAndSize(r.x, r.w, r.xMode, r.wMode, target.x, target.w)
        ux == updatePosAndSize(r.x, r.w, tx[1], tx[2], nx, widthMode, target.x, target.w)
        ty == applyPosAndSize(r.y, r.h, r.yMode, r.hMode, target.y, target.h)
        uy == updatePosAndSize(r.y, r.h, ty[1], ty[2], ny, heightMode, target.y, target.h)
        r1 == IF r.xMode # nx \/ r.wMode # widthMode
              THEN [r EXCEPT !.xMode = nx, !.wMode = widthMode, !.x = ux[1], !.w = ux[2]]
              ELSE r
    IN  IF r.yMode # ny \/ r.hMode # heightMode
        THEN [r1 EXCEPT !.yMode = ny, !.hMode = heightMode, !.y = uy[1], !.h = uy[2]]
        ELSE r1

getAnchorPointX(r) ==
    BitAnd(r.xMode, BitOr(anchorAtLeftOrTop, BitOr(anchorAtRightOrBottom, anchorAtCentre)))

getPositionModeX(r) ==
    BitAnd(r.xMode, BitOr(BitOr(absoluteFromParentTopLeft, absoluteFromParentBottomRight),
                          BitOr(absoluteFromParentCentre, proportionOfParentSize)))

getAnchorPointY(r) ==
    BitAnd(r.yMode, BitOr(anchorAtLeftOrTop, BitOr(anchorAtRightOrBottom, anchorAtCentre)))

getPositionModeY(r) ==
    BitAnd(r.yMode, BitOr(BitOr(absoluteFromParentTopLeft, absoluteFromParentBottomRight),
                          BitOr(absoluteFromParentCentre, proportionOfParentSize)))

isPositionAbsolute(r) ==
    /\ r.xMode = absoluteFromParentTopLeft
    /\ r.yMode = absoluteFromParentTopLeft
    /\ r.wMode = absoluteSize
    /\ r.hMode = absoluteSize

-----------------------------------------------------------------------------
(* The inputs of the exploration *)

None == <<>>

\* the number texts of the x and y tokens, and of the w and h tokens
PosNumbers == {<<"0", ".", "5">>, <<"-", "5", "0">>}
SizeNumbers == {<<"-", "1">>, <<"2">>, <<"5", "0">>}

\* the suffixes toString() can print after a number
PosSuffixes ==
    {b \o a : b \in {<<>>, <<"%">>, <<"R">>, <<"C">>}, a \in {<<>>, <<"r">>, <<"c">>}}
SizeSuffixes == {<<>>, <<"%">>, <<"M">>}

PosTokens == {n \o s : n \in PosNumbers, s \in PosSuffixes}
SizeTokens == {n \o s : n \in SizeNumbers, s \in SizeSuffixes}

\* the y and h tokens: every anchor, basis and size mode once
YHTokens ==
    {<<<<"2">>, <<"5">>>>,
     <<<<"5", "0", "%", "c">>, <<"5", "0", "%">>>>,
     <<<<"-", "1", "R", "r">>, <<"2", "M">>>>,
     <<<<"0", ".", "5", "C">>, <<"-", "1">>>>}

WellFormedStrings ==
    {JoinTokens(<<xt, yh[1], wt, yh[2]>>) : xt \in PosTokens, wt \in SizeTokens, yh \in YHTokens}

\* "10 20 30 40" and its prefixes, down to the empty string
PlainTokens == <<<<"1", "0">>, <<"2", "0">>, <<"3", "0">>, <<"4", "0">>>>
PlainStrings == {JoinTokens(SubSeq(PlainTokens, 1, k)) : k \in 0..4}

\* fewer than four tokens, with suffixes
ShortStrings ==
    {JoinTokens(<<<<"5", "0", "%", "c">>>>),
     JoinTokens(<<<<"2", "R", "r">>, <<"5", "C">>, <<"5", "0", "%">>>>)}

StringVersions == WellFormedStrings \cup PlainStrings \cup ShortStrings

\* reference rectangles with positive extents: every width and every height
\* of 1..MaxRef, every origin of 0..MaxOrigin
RefRects ==
    {Rectangle(s % (MaxOrigin + 1), (s + 1) % (MaxOrigin + 1), s, MaxRef + 1 - s) :
        s \in 1..MaxRef}

\* reference rectangles with an extent that is not positive
DegenerateRects ==
    {Rectangle(0, 0, 0, 0), Rectangle(MaxOrigin, 0, 0, MaxRef), Rectangle(0, MaxOrigin, MaxRef, -1)}

\* absolute rectangles: sizes -1..MaxAbs, origins -1..MaxOrigin
AbsRects ==
    {Rectangle(ax, MaxOrigin - 1 - ax, aw, MaxAbs - 1 - aw) :
        ax \in (-1)..MaxOrigin, aw \in (-1)..MaxAbs}

\* raw values for the setters and for updateFromDouble
RawValues == {D(-1), <<1, 2>>, D(2)}

\* the mode arguments of setModes: <<anchor, position mode, size mode>>
AxisModes == AnchorPoint \X PositionMode \X SizeMode
YAxisModes ==
    {<<anchorAtLeftOrTop, absoluteFromParentTopLeft, absoluteSize>>,
     <<anchorAtCentre, proportionOfParentSize, proportionalSize>>,
     <<anchorAtRightOrBottom, absoluteFromParentBottomRight, parentSizeMinusAbsolute>>,
     <<anchorAtLeftOrTop, absoluteFromParentCentre, absoluteSize>>}

-----------------------------------------------------------------------------
(* The state machine of one PositionedRectangle: it is constructed, then one  *)
(* member function is called on it.  op, pre, ref, arg and out record the     *)
(* call: its name, the object before it, its reference rectangle, its other  *)
(* arguments and what it returned.                                           *)

Init ==
    /\ \/ /\ ctor = "default"
          /\ src = <<>>
          /\ rect = DefaultPositionedRectangle
       \/ /\ ctor = "string"
          /\ src \in StringVersions
          /\ rect = PositionedRectangleFromString(src)
    /\ relativeToX = 0 /\ relativeToY = 0 /\ relativeToW = 0 /\ relativeToH = 0
    /\ pc = "ready"
    /\ op = "none" /\ pre = None /\ ref = None /\ arg = None /\ out = None
    /\ leafTargets = <<>>

Called(name, target, args, result) ==
    /\ pc' = "done"
    /\ op' = name /\ pre' = rect /\ ref' = target /\ arg' = args /\ out' = result
    /\ leafTargets' = IF name \in {"getRectangle", "getRectangleDouble"}
                      THEN <<target>> ELSE <<>>
    /\ UNCHANGED <<relVars, ctor, src>>

SetModes ==
    /\ pc = "ready"
    /\ \E xm \in AxisModes, ym \in YAxisModes, target \in RefRects :
          /\ rect' = setModes(rect, xm[1], xm[2], ym[1], ym[2], xm[3], ym[3], target)
          /\ Called("setModes", target, <<xm, ym>>, None)

UpdateFrom ==
    /\ pc = "ready"
    /\ \E target \in RefRects \cup DegenerateRects :
       \E newPosition \in AbsRects \cup (IF isEmpty(target) THEN {} ELSE {getRectangle(rect, target)}) :
          /\ rect' = updateFrom(rect, newPosition, target)
          /\ Called("updateFrom", target, newPosition, None)

UpdateFromDouble ==
    /\ pc = "ready"
    /\ \E target \in RefRects \cup DegenerateRects, v \in RawValues, s \in RawValues :
          /\ rect' = updateFromDouble(rect, v, s, s, v, target)
          /\ Called("updateFromDouble", target, <<v, s, s, v>>, None)

SetX ==
    /\ pc = "ready"
    /\ \E v \in RawValues : rect' = [rect EXCEPT !.x = v] /\ Called("setX", None, v, None)

SetY ==
    /\ pc = "ready"
    /\ \E v \in RawValues : rect' = [rect EXCEPT !.y = v] /\ Called("setY", None, v, None)

SetWidth ==
    /\ pc = "ready"
    /\ \E v \in RawValues : rect' = [rect EXCEPT !.w = v] /\ Called("setWidth", None, v, None)

SetHeight ==
    /\ pc = "ready"
    /\ \E v \in RawValues : rect' = [rect EXCEPT !.h = v] /\ Called("setHeight", None, v, None)

GetRectangle ==
    /\ pc = "ready"
    /\ \E target \in RefRects :
          /\ rect' = rect
          /\ Called("getRectangle", target, None, getRectangle(rect, target))

GetRectangleDouble ==
    /\ pc = "ready"
    /\ \E target \in RefRects :
          /\ rect' = rect
          /\ Called("getRectangleDouble", target, None, getRectangleDouble(rect, target))

ToString ==
    /\ pc = "ready"
    /\ rect' = rect
    /\ Called("toString", None, None, toString(rect))

IsPositionAbsolute ==
    /\ pc = "ready"
    /\ rect' = rect
    /\ Called("isPositionAbsolute", None, None, isPositionAbsolute(rect))

Next ==
    \/ SetModes
    \/ UpdateFrom
    \/ UpdateFromDouble
    \/ SetX
    \/ SetY
    \/ SetWidth
    \/ SetHeight
    \/ GetRectangle
    \/ GetRectangleDouble
    \/ ToString
    \/ IsPositionAbsolute

Spec == Init /\ [][Next]_vars

-----------------------------------------------------------------------------
(* struct RelativePositionedRectangle *)

\* A ComponentLayout pointer: null, or the layout's components, a function
\* from their ids to their bounds.
NullLayout == [isNull |-> TRUE, comps |-> <<>>]
LayoutOf(comps) == [isNull |-> FALSE, comps |-> comps]

\* a Component pointer: null, or the component's bounds
NullComponent == [isNull |-> TRUE, bounds |-> EmptyRectangle]

\* ComponentLayout::findComponentWithId; no component has the id 0
findComponentWithId(layout, id) ==
    IF id # 0 /\ id \in DOMAIN layout.comps
    THEN [isNull |-> FALSE, bounds |-> layout.comps[id]]
    ELSE NullComponent

\* getRelativeTargetBounds with the origin of an absent element taken as 0
getRelativeTargetBounds_NoParentOrigin(rX, rY, rW, rH, parentArea, layout) ==
    LET rx == IF ~layout.isNull THEN findComponentWithId(layout, rX) ELSE NullComponent
        ry == IF ~layout.isNull THEN findComponentWithId(layout, rY) ELSE NullComponent
        rw == IF ~layout.isNull THEN findComponentWithId(layout, rW) ELSE NullComponent
        rh == IF ~layout.isNull THEN findComponentWithId(layout, rH) ELSE NullComponent
    IN  [x  |-> IF ~rx.isNull THEN parentArea.x + rx.bounds.x ELSE 0,
         y  |-> IF ~ry.isNull THEN parentArea.y + ry.bounds.y ELSE 0,
         w  |-> IF ~rw.isNull THEN rw.bounds.w ELSE parentArea.w,
         h  |-> IF ~rh.isNull THEN rh.bounds.h ELSE parentArea.h,
         xw |-> IF ~rx.isNull THEN rx.bounds.w ELSE parentArea.w,
         yh |-> IF ~ry.isNull THEN ry.bounds.h ELSE parentArea.h]

\* getRelativeTargetBounds with the height reference taken from rw
getRelativeTargetBounds_HeightFromW(rX, rY, rW, rH, parentArea, layout) ==
    LET rx == IF ~layout.isNull THEN findComponentWithId(layout, rX) ELSE NullComponent
        ry == IF ~layout.isNull THEN findComponentWithId(layout, rY) ELSE NullComponent
        rw == IF ~layout.isNull THEN findComponentWithId(layout, rW) ELSE NullComponent
        rh == IF ~layout.isNull THEN findComponentWithId(layout, rH) ELSE NullComponent
    IN  [x  |-> parentArea.x + (IF ~rx.isNull THEN rx.bounds.x ELSE 0),
         y  |-> parentArea.y + (IF ~ry.isNull THEN ry.bounds.y ELSE 0),
         w  |-> IF ~rw.isNull THEN rw.bounds.w ELSE parentArea.w,
         h  |-> IF ~rw.isNull THEN rw.bounds.h ELSE parentArea.h,
         xw |-> IF ~rx.isNull THEN rx.bounds.w ELSE parentArea.w,
         yh |-> IF ~ry.isNull THEN ry.bounds.h ELSE parentArea.h]

\* getRelativeTargetBounds with the width of the position reference taken
\* from rw
getRelativeTargetBounds_ExtentFromW(rX, rY, rW, rH, parentArea, layout) ==
    LET rx == IF ~layout.isNull THEN findComponentWithId(layout, rX) ELSE NullComponent
        ry == IF ~layout.isNull THEN findComponentWithId(layout, rY) ELSE NullComponent
        rw == IF ~layout.isNull THEN findComponentWithId(layout, rW) ELSE NullComponent
        rh == IF ~layout.isNull THEN findComponentWithId(layout, rH) ELSE NullComponent
    IN  [x  |-> parentArea.x + (IF ~rx.isNull THEN rx.bounds.x ELSE 0),
         y  |-> parentArea.y + (IF ~ry.isNull THEN ry.bounds.y ELSE 0),
         w  |-> IF ~rw.isNull THEN rw.bounds.w ELSE parentArea.w,
         h  |-> IF ~rh.isNull THEN rh.bounds.h ELSE parentArea.h,
         xw |-> IF ~rw.isNull THEN rw.bounds.w ELSE parentArea.w,
         yh |-> IF ~ry.isNull THEN ry.bounds.h ELSE parentArea.h]

\* the reference values on each axis
getRelativeTargetBounds(rX, rY, rW, rH, parentArea, layout) ==
    LET rx == IF ~layout.isNull THEN findComponentWithId(layout, rX) ELSE NullComponent
        ry == IF ~layout.isNull THEN findComponentWithId(layout, rY) ELSE NullComponent
        rw == IF ~layout.isNull THEN findComponentWithId(layout, rW) ELSE NullComponent
        rh == IF ~layout.isNull THEN findComponentWithId(layout, rH) ELSE NullComponent
    IN  [x  |-> parentArea.x + (IF ~rx.isNull THEN rx.bounds.x ELSE 0),
         y  |-> parentArea.y + (IF ~ry.isNull THEN ry.bounds.y ELSE 0),
         w  |-> IF ~rw.isNull THEN rw.bounds.w ELSE parentArea.w,
         h  |-> IF ~rh.isNull THEN rh.bounds.h ELSE parentArea.h,
         xw |-> IF ~rx.isNull THEN rx.bounds.w ELSE parentArea.w,
         yh |-> IF ~ry.isNull THEN ry.bounds.h ELSE parentArea.h]

\* getRectangle with one test deciding both pairs
getRectangleRelative_JointTest(r, rX, rY, rW, rH, parentArea, layout) ==
    LET b == getRelativeTargetBounds(rX, rY, rW, rH, parentArea, layout)
        degenerate == b.xw <= 0 \/ b.yh <= 0 \/ b.w <= 0 \/ b.h <= 0
        xyRect == IF degenerate THEN EmptyRectangle
                  ELSE getRectangle(r, Rectangle(b.x, b.y, b.xw, b.yh))
        whRect == IF degenerate THEN EmptyRectangle
                  ELSE getRectangle(r, Rectangle(b.x, b.y, b.w, b.h))
    IN  Rectangle(xyRect.x, xyRect.y, whRect.w, whRect.h)

\* RelativePositionedRectangle::getRectangle
getRectangleRelative(r, rX, rY, rW, rH, parentArea, layout) ==
    LET b == getRelativeTargetBounds(rX, rY, rW, rH, parentArea, layout)
        xyRect == IF b.xw <= 0 \/ b.yh <= 0 THEN EmptyRectangle
                  ELSE getRectangle(r, Rectangle(b.x, b.y, b.xw, b.yh))
        whRect == IF b.w <= 0 \/ b.h <= 0 THEN EmptyRectangle
                  ELSE getRectangle(r, Rectangle(b.x, b.y, b.w, b.h))
    IN  Rectangle(xyRect.x, xyRect.y, whRect.w, whRect.h)

\* the reference rectangles that RelativePositionedRectangle::getRectangle
\* hands to PositionedRectangle::getRectangle, in call order
getRectangleRelativeTargets(rX, rY, rW, rH, parentArea, layout) ==
    LET b == getRelativeTargetBounds(rX, rY, rW, rH, parentArea, layout)
    IN  (IF b.xw <= 0 \/ b.yh <= 0 THEN <<>> ELSE <<Rectangle(b.x, b.y, b.xw, b.yh)>>)
        \o (IF b.w <= 0 \/ b.h <= 0 THEN <<>> ELSE <<Rectangle(b.x, b.y, b.w, b.h)>>)

\* RelativePositionedRectangle::getRectangleDouble: x and y from the first
\* leaf call, w and h from the second
getRectangleDoubleRelative(r, rX, rY, rW, rH, parentArea, layout) ==
    LET b  == getRelativeTargetBounds(rX, rY, rW, rH, parentArea, layout)
        xy == getRectangleDouble(r, Rectangle(b.x, b.y, b.xw, b.yh))
        wh == getRectangleDouble(r, Rectangle(b.x, b.y, b.w, b.h))
    IN  [x |-> xy.x, y |-> xy.y, w |-> wh.w, h |-> wh.h]

\* the reference rectangles that RelativePositionedRectangle::getRectangleDouble
\* hands to PositionedRectangle::getRectangleDouble, in call order
getRectangleDoubleRelativeTargets(rX, rY, rW, rH, parentArea, layout) ==
    LET b == getRelativeTargetBounds(rX, rY, rW, rH, parentArea, layout)
    IN  <<Rectangle(b.x, b.y, b.xw, b.yh), Rectangle(b.x, b.y, b.w, b.h)>>

\* toXY: the point, before its coordinates are narrowed to float
toXY(r, rX, rY, rW, rH, parentArea, layout) ==
    LET d == getRectangleDoubleRelative(r, rX, rY, rW, rH, parentArea, layout)
    IN  <<d.x, d.y>>

getXY(r, rX, rY, rW, rH, parentArea, layout) ==
    LET d == getRectangleDoubleRelative(r, rX, rY, rW, rH, parentArea, layout)
    IN  [x |-> d.x, y |-> d.y]

\* RelativePositionedRectangle::updateFrom: x and y from a copy updated against
\* the position reference, w and h from a copy updated against the size reference
updateFromRelative(r, rX, rY, rW, rH, newX, newY, newW, newH, parentArea, layout) ==
    LET b      == getRelativeTargetBounds(rX, rY, rW, rH, parentArea, layout)
        xyRect == updateFromDouble(r, newX, newY, newW, newH, Rectangle(b.x, b.y, b.xw, b.yh))
        whRect == updateFromDouble(r, newX, newY, newW, newH, Rectangle(b.x, b.y, b.w, b.h))
    IN  [r EXCEPT !.x = xyRect.x, !.y = xyRect.y, !.w = whRect.w, !.h = whRect.h]

HexChars == <<"0", "1", "2", "3", "4", "5", "6", "7", "8", "9", "a", "b", "c", "d", "e", "f">>

\* String::toHexString
RECURSIVE toHexString(_)
toHexString(n) ==
    IF n < 16 THEN <<HexChars[n + 1]>>
    ELSE toHexString(n \div 16) \o <<HexChars[(n % 16) + 1]>>

\* String::getHexValue64
RECURSIVE getHexValue64(_)
getHexValue64(s) ==
    IF s = <<>> THEN 0
    ELSE LET c == s[Len(s)]
             v == IF \E i \in 1..16 : HexChars[i] = c
                  THEN (CHOOSE i \in 1..16 : HexChars[i] = c) - 1
                  ELSE 0
         IN  16 * getHexValue64(SubSeq(s, 1, Len(s) - 1)) + v

\* XmlElement::getStringAttribute (name, defaultValue); e is the function from
\* the names of the element's attributes to their values
getStringAttribute(e, name, defaultValue) ==
    IF name \in DOMAIN e THEN e[name] ELSE defaultValue

-----------------------------------------------------------------------------
(* The inputs of the exploration of RelativePositionedRectangle *)

RelXYTokens ==
    {<<<<"2">>, <<"1">>>>,
     <<<<"5", "0", "%", "c">>, <<"5", "0", "%", "r">>>>,
     <<<<"1", "R", "r">>, <<"0", ".", "5", "C", "c">>>>,
     <<<<"-", "1", "C">>, <<"2", "R">>>>}

RelWHTokens ==
    {<<<<"2">>, <<"1">>>>,
     <<<<"5", "0", "%">>, <<"5", "0", "%">>>>,
     <<<<"1", "M">>, <<"5", "M">>>>}

RelStrings ==
    {JoinTokens(<<xy[1], xy[2], wh[1], wh[2]>>) : xy \in RelXYTokens, wh \in RelWHTokens}

\* the ids of the layout's components; MissingId names no component
ComponentA == 1
ComponentB == 2
MissingId == 3

\* a layout of two components, the second of width 0
SomeLayout ==
    LayoutOf([i \in {ComponentA, ComponentB} |->
                 IF i = ComponentA
                 THEN Rectangle(MaxOrigin + 1, MaxOrigin, MaxRef, MaxRef - 1)
                 ELSE Rectangle(MaxOrigin, MaxOrigin + 1, 0, MaxRef + 1)])

EmptyLayout == LayoutOf(<<>>)

Layouts == {NullLayout, EmptyLayout, SomeLayout}

ParentAreas == RefRects \cup DegenerateRects

\* the XmlElements given to restoreFromXml: "pos" absent or one of RelStrings,
\* each "posRelative" attribute absent or the hex text of an id
IdAttributes == {None} \cup {toHexString(i) : i \in {ComponentA, ComponentB, MissingId}}

XmlElementOf(pos, ax, ay, aw, ah) ==
    LET names == {n \in {"pos", "posRelativeX", "posRelativeY", "posRelativeW", "posRelativeH"} :
                     CASE n = "pos" -> pos # None
                       [] n = "posRelativeX" -> ax # None
                       [] n = "posRelativeY" -> ay # None
                       [] n = "posRelativeW" -> aw # None
                       [] OTHER -> ah # None}
    IN  [n \in names |->
            CASE n = "pos" -> pos
              [] n = "posRelativeX" -> ax
              [] n = "posRelativeY" -> ay
              [] n = "posRelativeW" -> aw
              [] OTHER -> ah]

-----------------------------------------------------------------------------
(* The state machine of one RelativePositionedRectangle: it is constructed,   *)
(* it may be restored from an XmlElement, then one member function is called *)
(* on it.  ref records the call's parentArea and arg its layout.             *)

InitRel ==
    /\ ctor = "default"
    /\ src = <<>>
    /\ rect = DefaultPositionedRectangle
    /\ relativeToX = 0 /\ relativeToY = 0 /\ relativeToW = 0 /\ relativeToH = 0
    /\ pc = "new"
    /\ op = "none" /\ pre = None /\ ref = None /\ arg = None /\ out = None
    /\ leafTargets = <<>>

\* restoreFromXml (e, defaultPos), defaultPos a default-constructed object
RestoreFromXml ==
    /\ pc = "new"
    /\ \E pos \in {None} \cup RelStrings, ax \in IdAttributes, ay \in IdAttributes,
          aw \in IdAttributes, ah \in IdAttributes :
          LET e == XmlElementOf(pos, ax, ay, aw, ah)
              s == getStringAttribute(e, "pos", toString(DefaultPositionedRectangle))
          IN  /\ rect' = PositionedRectangleFromString(s)
              /\ relativeToX' = getHexValue64(getStringAttribute(e, "posRelativeX", toHexString(0)))
              /\ relativeToY' = getHexValue64(getStringAttribute(e, "posRelativeY", toHexString(0)))
              /\ relativeToW' = getHexValue64(getStringAttribute(e, "posRelativeW", toHexString(0)))
              /\ relativeToH' = getHexValue64(getStringAttribute(e, "posRelativeH", toHexString(0)))
              /\ ctor' = "string" /\ src' = s
    /\ pc' = "ready"
    /\ op' = "restoreFromXml"
    /\ UNCHANGED <<pre, ref, arg, out, leafTargets>>

CalledRel(name, parentArea, layout, result, targets) ==
    /\ pc' = "done"
    /\ op' = name /\ pre' = rect /\ ref' = parentArea /\ arg' = layout /\ out' = result
    /\ leafTargets' = targets
    /\ UNCHANGED <<rect, relVars, ctor, src>>

GetRelativeTargetBounds ==
    /\ pc \in {"new", "ready"}
    /\ \E parentArea \in ParentAreas, layout \in Layouts :
          CalledRel("relative.getRelativeTargetBounds", parentArea, layout,
                    getRelativeTargetBounds(relativeToX, relativeToY, relativeToW,
                                            relativeToH, parentArea, layout),
                    <<>>)

GetRectangleRelative ==
    /\ pc \in {"new", "ready"}
    /\ \E parentArea \in ParentAreas, layout \in Layouts :
          CalledRel("relative.getRectangle", parentArea, layout,
                    getRectangleRelative(rect, relativeToX, relativeToY, relativeToW,
                                         relativeToH, parentArea, layout),
                    getRectangleRelativeTargets(relativeToX, relativeToY, relativeToW,
                                                relativeToH, parentArea, layout))

GetRectangleDoubleRelative ==
    /\ pc \in {"new", "ready"}
    /\ \E parentArea \in ParentAreas, layout \in Layouts :
          CalledRel("relative.getRectangleDouble", parentArea, layout,
                    getRectangleDoubleRelative(rect, relativeToX, relativeToY, relativeToW,
                                               relativeToH, parentArea, layout),
                    getRectangleDoubleRelativeTargets(relativeToX, relativeToY, relativeToW,
                                                      relativeToH, parentArea, layout))

ToXY ==
    /\ pc \in {"new", "ready"}
    /\ \E parentArea \in ParentAreas, layout \in {NullLayout, SomeLayout} :
          CalledRel("relative.toXY", parentArea, layout,
                    toXY(rect, relativeToX, relativeToY, relativeToW, relativeToH,
                         parentArea, layout),
                    getRectangleDoubleRelativeTargets(relativeToX, relativeToY, relativeToW,
                                                      relativeToH, parentArea, layout))

GetXY ==
    /\ pc \in {"new", "ready"}
    /\ \E parentArea \in ParentAreas, layout \in {NullLayout, SomeLayout} :
          CalledRel("relative.getXY", parentArea, layout,
                    getXY(rect, relativeToX, relativeToY, relativeToW, relativeToH,
                          parentArea, layout),
                    getRectangleDoubleRelativeTargets(relativeToX, relativeToY, relativeToW,
                                                      relativeToH, parentArea, layout))

\* the integer rectangles handed to updateFrom
RelPositions ==
    {Rectangle(1, -1, 2, 0), Rectangle(0, MaxOrigin + 1, 1, MaxAbs + 1),
     Rectangle(-1, 0, 0, 1), Rectangle(MaxOrigin, 1, MaxRef, -1)}

UpdateFromRelative ==
    /\ pc \in {"new", "ready"}
    /\ \E parentArea \in RefRects, layout \in {NullLayout, SomeLayout},
          newPosition \in RelPositions :
          /\ rect' = updateFromRelative(rect, relativeToX, relativeToY, relativeToW,
                                        relativeToH, D(newPosition.x), D(newPosition.y),
                                        D(newPosition.w), D(newPosition.h),
                                        parentArea, layout)
          /\ pc' = "done"
          /\ op' = "relative.updateFrom" /\ pre' = rect /\ ref' = parentArea
          /\ arg' = [position |-> newPosition, layout |-> layout]
          /\ out' = None /\ leafTargets' = <<>>
          /\ UNCHANGED <<relVars, ctor, src>>

NextRel ==
    \/ RestoreFromXml
    \/ UpdateFromRelative
    \/ GetRelativeTargetBounds
    \/ GetRectangleRelative
    \/ GetRectangleDoubleRelative
    \/ ToXY
    \/ GetXY

SpecRel == InitRel /\ [][NextRel]_vars

-----------------------------------------------------------------------------
(* Sequences of calls on one PositionedRectangle.  pc counts the calls     *)
(* made so far; op names the last one.                                     *)

MaxCalls == 4

\* tokens with several suffix letters, in any order, next to plain ones
SeqStrings ==
    {JoinTokens(<<<<"5", "%", "R">>, <<"5", "r", "c">>, <<"5", "M", "%">>, <<"5">>>>),
     JoinTokens(<<<<"5", "R", "C", "%", "c", "r">>, <<"5", "C", "r">>,
                  <<"5", "%", "M">>, <<"5", "M">>>>),
     JoinTokens(<<<<"c", "5", "C", "R">>, <<"-", "5", "c", "r", "%">>,
                  <<"5", "M", "M">>, <<"%", "5", "%">>>>),
     JoinTokens(<<<<"-", "5", "0", "R", "r">>, <<"0", ".", "5", "C">>,
                  <<"5", "0", "%">>, <<"2", "M">>>>),
     JoinTokens(<<<<"r", "c", "R", "C", "%">>>>)}

\* the enum arguments of setModes: <<x triple, y triple>>, every anchor,
\* position mode and size mode at least once
SeqModes ==
    {<<<<anchorAtLeftOrTop, absoluteFromParentTopLeft, absoluteSize>>,
       <<anchorAtRightOrBottom, absoluteFromParentBottomRight, parentSizeMinusAbsolute>>>>,
     <<<<anchorAtCentre, absoluteFromParentCentre, proportionalSize>>,
       <<anchorAtLeftOrTop, proportionOfParentSize, absoluteSize>>>>,
     <<<<anchorAtRightOrBottom, proportionOfParentSize, parentSizeMinusAbsolute>>,
       <<anchorAtCentre, absoluteFromParentTopLeft, proportionalSize>>>>,
     <<<<anchorAtCentre, absoluteFromParentBottomRight, absoluteSize>>,
       <<anchorAtRightOrBottom, absoluteFromParentCentre, proportionalSize>>>>}

SeqRef == Rectangle(MaxOrigin, 0, MaxRef, MaxRef - 1)
SeqTargets == {SeqRef, Rectangle(0, MaxOrigin, 0, MaxRef)}
SeqPosition == Rectangle(-1, MaxOrigin, MaxAbs, 0)
SeqValue == <<-3, 2>>

\* the objects a copy or an assignment can take its fields from
SeqOthers ==
    {DefaultPositionedRectangle} \cup {PositionedRectangleFromString(s) : s \in SeqStrings}

InitSeq ==
    /\ \/ /\ ctor = "default"
          /\ src = <<>>
          /\ rect = DefaultPositionedRectangle
       \/ /\ ctor = "string"
          /\ src \in SeqStrings
          /\ rect = PositionedRectangleFromString(src)
    /\ relativeToX = 0 /\ relativeToY = 0 /\ relativeToW = 0 /\ relativeToH = 0
    /\ pc = 0
    /\ op = "none" /\ pre = None /\ ref = None /\ arg = None /\ out = None
    /\ leafTargets = <<>>

SeqCalled(name) ==
    /\ pc < MaxCalls
    /\ pc' = pc + 1
    /\ op' = name
    /\ UNCHANGED <<relVars, ctor, src, pre, ref, arg, out, leafTargets>>

SeqSetModes ==
    \E m \in SeqModes :
       /\ rect' = setModes(rect, m[1][1], m[1][2], m[2][1], m[2][2], m[1][3], m[2][3], SeqRef)
       /\ SeqCalled("setModes")

SeqUpdateFrom ==
    \E target \in SeqTargets :
       /\ rect' = updateFrom(rect, SeqPosition, target)
       /\ SeqCalled("updateFrom")

SeqUpdateFromDouble ==
    \E target \in SeqTargets :
       /\ rect' = updateFromDouble(rect, SeqValue, D(1), D(2), SeqValue, target)
       /\ SeqCalled("updateFromDouble")

SeqSetX == rect' = [rect EXCEPT !.x = SeqValue] /\ SeqCalled("setX")
SeqSetY == rect' = [rect EXCEPT !.y = SeqValue] /\ SeqCalled("setY")
SeqSetWidth == rect' = [rect EXCEPT !.w = SeqValue] /\ SeqCalled("setWidth")
SeqSetHeight == rect' = [rect EXCEPT !.h = SeqValue] /\ SeqCalled("setHeight")

\* the copy constructor: the object followed from here on is the copy
SeqCopy == rect' = rect /\ SeqCalled("copy")

\* operator=
SeqAssign == \E other \in SeqOthers : rect' = other /\ SeqCalled("assign")

NextSeq ==
    \/ SeqSetModes
    \/ SeqUpdateFrom
    \/ SeqUpdateFromDouble
    \/ SeqSetX
    \/ SeqSetY
    \/ SeqSetWidth
    \/ SeqSetHeight
    \/ SeqCopy
    \/ SeqAssign

SpecSeq == InitSeq /\ [][NextSeq]_vars

-----------------------------------------------------------------------------
(* Properties of PositionedRectangle, checked under Spec *)

Modes(r) == <<r.xMode, r.yMode, r.wMode, r.hMode>>
Raw(r) == <<r.x, r.y, r.w, r.h>>

\* one anchor bit and one position-mode bit, and nothing else
ValidPosMode(m) == \E a \in AnchorPoint, b \in PositionMode : m = a + b
ValidModes(r) ==
    /\ ValidPosMode(r.xMode) /\ ValidPosMode(r.yMode)
    /\ r.wMode \in SizeMode /\ r.hMode \in SizeMode

\* C1 as claimed: after setModes against a reference rectangle with positive
\* extents, getRectangle and getRectangleDouble against that rectangle return
\* what they returned before the call, whatever the raw values were.
C1_ModeChangeInvariance ==
    (op = "setModes" /\ ~isEmpty(ref) /\ ValidModes(pre)) =>
        /\ getRectangle(rect, ref) = getRectangle(pre, ref)
        /\ getRectangleDouble(rect, ref) = getRectangleDouble(pre, ref)

\* the width (height) resolved before the call is negative and the call
\* switches that dimension to parentSizeMinusAbsolute, which resolves to
\* jmax (0, ...)
C1_NegativeSizeClamped ==
    \/ getRectangle(pre, ref).w < 0 /\ rect.wMode = parentSizeMinusAbsolute
    \/ getRectangle(pre, ref).h < 0 /\ rect.hMode = parentSizeMinusAbsolute

\* C1 as amended: after setModes against a reference rectangle with positive
\* extents, getRectangle and getRectangleDouble against that rectangle return
\* what they returned before the call, unless a dimension whose resolved size
\* was negative has been switched to parentSizeMinusAbsolute.
C1_ModeChangeInvarianceAmended ==
    (op = "setModes" /\ ~isEmpty(ref) /\ ValidModes(pre) /\ ~C1_NegativeSizeClamped) =>
        /\ getRectangle(rect, ref) = getRectangle(pre, ref)
        /\ getRectangleDouble(rect, ref) = getRectangleDouble(pre, ref)

\* C1's case: both axes change mode, the old width is a parentSizeMinusAbsolute
\* value larger than the reference width and the old height is negative
C1_Witness ==
    /\ op = "setModes" /\ ~isEmpty(ref) /\ ValidModes(pre) /\ ~C1_NegativeSizeClamped
    /\ pre.xMode # rect.xMode /\ pre.yMode # rect.yMode
    /\ pre.wMode = parentSizeMinusAbsolute /\ roundToInt(pre.w) > ref.w
    /\ rect.wMode = proportionalSize
    /\ getRectangle(pre, ref).h < 0
    /\ Raw(rect) # Raw(pre)

\* C2 as claimed: after updateFrom (A, R) with R of positive extents,
\* getRectangle (R) returns A, for every A, and the modes are unchanged.
C2_InverseThenForward ==
    (op = "updateFrom" /\ ~isEmpty(ref)) =>
        /\ getRectangle(rect, ref) = arg
        /\ Modes(rect) = Modes(pre)

\* C2 as amended: after updateFrom (A, R) with R of positive extents,
\* getRectangle (R) returns A and the modes are unchanged, for every A whose
\* width (height) is not negative where the width (height) mode is
\* parentSizeMinusAbsolute.
C2_InverseThenForwardAmended ==
    (/\ op = "updateFrom" /\ ~isEmpty(ref)
     /\ ~(arg.w < 0 /\ pre.wMode = parentSizeMinusAbsolute)
     /\ ~(arg.h < 0 /\ pre.hMode = parentSizeMinusAbsolute)) =>
        /\ getRectangle(rect, ref) = arg
        /\ Modes(rect) = Modes(pre)

\* C2's case: a negative width under a mode that is not parentSizeMinusAbsolute,
\* a positive height, a centre anchor and a proportional position
C2_Witness ==
    /\ op = "updateFrom" /\ ~isEmpty(ref)
    /\ arg.w < 0 /\ pre.wMode = proportionalSize /\ arg.h > 0
    /\ HasBit(pre.xMode, anchorAtCentre) /\ HasBit(pre.xMode, proportionOfParentSize)
    /\ pre.hMode = parentSizeMinusAbsolute
    /\ Raw(rect) # Raw(pre)

\* C3 as claimed: updateFrom (getRectangle (R), R), R of positive extents,
\* leaves the raw values and the modes as they were.
C3_ForwardThenInverse ==
    (op = "updateFrom" /\ ~isEmpty(ref) /\ arg = getRectangle(pre, ref)) =>
        /\ Raw(rect) = Raw(pre)
        /\ Modes(rect) = Modes(pre)

\* the raw size loses nothing in the forward evaluation: no rounding, and no
\* clamp of a parentSizeMinusAbsolute value larger than the reference size
C3_SizeExact(raw, mode, parentSize) ==
    IF mode = proportionalSize THEN IsInt(RMul(raw, D(parentSize)))
    ELSE IF mode = parentSizeMinusAbsolute THEN IsInt(raw) /\ raw[1] <= parentSize
    ELSE IsInt(raw)

C3_Exact(r, target) ==
    /\ C3_SizeExact(r.w, r.wMode, target.w)
    /\ C3_SizeExact(r.h, r.hMode, target.h)
    /\ IsInt(getRectangleDouble(r, target).x)
    /\ IsInt(getRectangleDouble(r, target).y)

\* C3 as amended: updateFrom (getRectangle (R), R), R of positive extents,
\* leaves the raw values and the modes as they were, provided getRectangle (R)
\* lost nothing: the unrounded x and y are integers, no raw size is changed by
\* rounding, and no parentSizeMinusAbsolute value exceeds the reference size.
C3_ForwardThenInverseAmended ==
    (/\ op = "updateFrom" /\ ~isEmpty(ref) /\ arg = getRectangle(pre, ref)
     /\ C3_Exact(pre, ref)) =>
        /\ Raw(rect) = Raw(pre)
        /\ Modes(rect) = Modes(pre)

\* C3's case: an exact forward evaluation under a centre anchor, a position
\* measured from the right and a proportional width
C3_Witness ==
    /\ op = "updateFrom" /\ ~isEmpty(ref) /\ arg = getRectangle(pre, ref)
    /\ C3_Exact(pre, ref)
    /\ HasBit(pre.xMode, anchorAtCentre)
    /\ HasBit(pre.xMode, absoluteFromParentBottomRight)
    /\ pre.wMode = proportionalSize /\ arg.w > 0
    /\ pre.hMode = parentSizeMinusAbsolute

\* the raw values toString() prints without loss: two decimals, or a
\* percentage of three decimals
C4_Representable(r) ==
    /\ IsInt(RMul(r.x, D(IF HasBit(r.xMode, proportionOfParentSize) THEN 100000 ELSE 100)))
    /\ IsInt(RMul(r.y, D(IF HasBit(r.yMode, proportionOfParentSize) THEN 100000 ELSE 100)))
    /\ IsInt(RMul(r.w, D(IF r.wMode = proportionalSize THEN 100000 ELSE 100)))
    /\ IsInt(RMul(r.h, D(IF r.hMode = proportionalSize THEN 100000 ELSE 100)))

\* C4: a PositionedRectangle with valid modes and raw values representable at
\* the output precision is equal to the one constructed from its toString():
\* the four modes and the four raw values are recovered.
C4_TextRoundTrip ==
    (op = "toString" /\ ValidModes(pre) /\ C4_Representable(pre)) =>
        PositionedRectangleFromString(out) = pre

\* C4's case: a negative fractional proportion anchored at the centre, a
\* position from the bottom anchored there, a parentSizeMinusAbsolute width
C4_Witness ==
    /\ op = "toString" /\ ValidModes(pre) /\ C4_Representable(pre)
    /\ HasBit(pre.xMode, proportionOfParentSize) /\ HasBit(pre.xMode, anchorAtCentre)
    /\ pre.x[1] < 0 /\ ~IsInt(pre.x)
    /\ HasBit(pre.yMode, absoluteFromParentBottomRight)
    /\ HasBit(pre.yMode, anchorAtRightOrBottom)
    /\ pre.wMode = parentSizeMinusAbsolute
    /\ Len(out) > 0

\* both positions are measured from the parent's top left to this rectangle's
\* top left, and both sizes are absolute
C5_AllAbsolute(r) ==
    /\ getAnchorPointX(r) = anchorAtLeftOrTop
    /\ getPositionModeX(r) = absoluteFromParentTopLeft
    /\ getAnchorPointY(r) = anchorAtLeftOrTop
    /\ getPositionModeY(r) = absoluteFromParentTopLeft
    /\ r.wMode = absoluteSize
    /\ r.hMode = absoluteSize

\* C5: isPositionAbsolute() returns true exactly when both axes are anchored
\* at left/top with the basis absoluteFromParentTopLeft and both sizes are
\* absoluteSize; so it does for a default-constructed rectangle and for
\* "10 20 30 40".
C5_IsPositionAbsolute ==
    (op = "isPositionAbsolute") => (out <=> C5_AllAbsolute(pre))

\* C6 as claimed: a string of fewer than four tokens is rejected with a parse
\* error; no rectangle is constructed from it.
C6_MalformedRejected ==
    (ctor = "string" /\ Len(addTokens(src)) < 4) => pc = "error"

\* C6 as amended: a string of fewer than four tokens is accepted; every
\* missing token is decoded as an empty string: value 0, anchored at left/top
\* from the parent's top left, or an absolute size.
C6_MalformedDefaulted ==
    (ctor = "string" /\ op = "none" /\ Len(addTokens(src)) < 4) =>
        LET n == Len(addTokens(src))
        IN  /\ pc = "ready"
            /\ n < 1 => rect.x = D(0) /\ rect.xMode = DefaultPositionedRectangle.xMode
            /\ n < 2 => rect.y = D(0) /\ rect.yMode = DefaultPositionedRectangle.yMode
            /\ n < 3 => rect.w = D(0) /\ rect.wMode = absoluteSize
            /\ rect.h = D(0) /\ rect.hMode = absoluteSize

\* C6's case: three tokens, the fourth missing, the first three decoded
C6_Witness ==
    /\ ctor = "string" /\ op = "none" /\ Len(addTokens(src)) = 3
    /\ rect.wMode = proportionalSize /\ rect.w = <<1, 2>>
    /\ HasBit(rect.xMode, anchorAtRightOrBottom)
    /\ rect.h = D(0) /\ rect.hMode = absoluteSize

-----------------------------------------------------------------------------
(* Properties of RelativePositionedRectangle, checked under SpecRel *)

\* the identifier is zero, or the layout pointer is null, or the layout holds
\* no component of that id
C7_Unresolved(id, layout) == id = 0 \/ layout.isNull \/ id \notin DOMAIN layout.comps

\* C7: with a parentArea of positive extents and each of the four identifiers
\* zero or not found (or a null layout), getRectangle (parentArea, layout)
\* equals rect.getRectangle (parentArea).
C7_ReferenceFallback ==
    (/\ op = "relative.getRectangle" /\ ~isEmpty(ref)
     /\ C7_Unresolved(relativeToX, arg) /\ C7_Unresolved(relativeToY, arg)
     /\ C7_Unresolved(relativeToW, arg) /\ C7_Unresolved(relativeToH, arg)) =>
        out = getRectangle(rect, ref)

\* C7's case: identifiers that the layout does not find, beside unset ones, a
\* parentArea away from the origin and a rectangle that depends on it
C7_Witness ==
    /\ op = "relative.getRectangle" /\ ~isEmpty(ref)
    /\ arg = SomeLayout
    /\ relativeToX = MissingId /\ relativeToY = 0
    /\ relativeToW = MissingId /\ relativeToH = MissingId
    /\ ref.x # 0
    /\ HasBit(rect.xMode, proportionOfParentSize) /\ rect.wMode = parentSizeMinusAbsolute
    /\ out = getRectangle(rect, ref) /\ out.w > 0 /\ out.x # 0

\* C8 as claimed: each output of getRelativeTargetBounds whose identifier is
\* found is the element's own value (its x, its y, its width, its height), and
\* is parentArea's value when the element is absent, for every parentArea.
C8_ReferenceFrame ==
    (op = "relative.getRelativeTargetBounds") =>
        LET found(id) == ~C7_Unresolved(id, arg)
        IN  /\ out.x = IF found(relativeToX) THEN arg.comps[relativeToX].x ELSE ref.x
            /\ out.y = IF found(relativeToY) THEN arg.comps[relativeToY].y ELSE ref.y
            /\ out.w = IF found(relativeToW) THEN arg.comps[relativeToW].w ELSE ref.w
            /\ out.h = IF found(relativeToH) THEN arg.comps[relativeToH].h ELSE ref.h

\* C8 as amended: the width and height references are the found element's own
\* width and height, and parentArea's when it is absent; the x and y origins
\* are parentArea's x and y, plus the found element's x and y.
C8_ReferenceFrameAmended ==
    (op = "relative.getRelativeTargetBounds") =>
        LET found(id) == ~C7_Unresolved(id, arg)
        IN  /\ out.x = ref.x + (IF found(relativeToX) THEN arg.comps[relativeToX].x ELSE 0)
            /\ out.y = ref.y + (IF found(relativeToY) THEN arg.comps[relativeToY].y ELSE 0)
            /\ out.w = IF found(relativeToW) THEN arg.comps[relativeToW].w ELSE ref.w
            /\ out.h = IF found(relativeToH) THEN arg.comps[relativeToH].h ELSE ref.h

\* C8's case: a parentArea away from the origin, the x origin and the width
\* taken from two different elements, the height from none
C8_Witness ==
    /\ op = "relative.getRelativeTargetBounds"
    /\ arg = SomeLayout /\ ref.x # 0
    /\ relativeToX = ComponentA /\ relativeToW = ComponentB
    /\ relativeToY = ComponentB /\ relativeToH = MissingId
    /\ out.x = ref.x + SomeLayout.comps[ComponentA].x
    /\ out.w # ref.w /\ out.h = ref.h

\* C9: with relativeToX, relativeToY and relativeToH zero and relativeToW
\* naming an element the layout finds, the position reference (x, y, xw, yh)
\* and the height reference are those of the same object with relativeToW
\* zero, and getRectangle returns the same X and Y for both.
C9_IndependentAxes ==
    (/\ op = "relative.getRectangle"
     /\ relativeToX = 0 /\ relativeToY = 0 /\ relativeToH = 0
     /\ ~C7_Unresolved(relativeToW, arg)) =>
        LET b1 == getRelativeTargetBounds(0, 0, relativeToW, 0, ref, arg)
            b0 == getRelativeTargetBounds(0, 0, 0, 0, ref, arg)
            r0 == getRectangleRelative(rect, 0, 0, 0, 0, ref, arg)
        IN  /\ <<b1.x, b1.y, b1.xw, b1.yh, b1.h>> = <<b0.x, b0.y, b0.xw, b0.yh, b0.h>>
            /\ b1.w = arg.comps[relativeToW].w
            /\ out.x = r0.x /\ out.y = r0.y

\* C9's case: the width reference changes the width, and X depends on the
\* width resolved against the position reference
C9_Witness ==
    /\ op = "relative.getRectangle" /\ ~isEmpty(ref)
    /\ relativeToX = 0 /\ relativeToY = 0 /\ relativeToH = 0
    /\ relativeToW = ComponentA /\ arg = SomeLayout
    /\ HasBit(rect.xMode, anchorAtCentre) /\ rect.wMode = proportionalSize
    /\ out.w # getRectangleRelative(rect, 0, 0, 0, 0, ref, arg).w
    /\ out.x = getRectangleRelative(rect, 0, 0, 0, 0, ref, arg).x
    /\ getRectangle(rect, ref).w # 0

\* C10: getRectangle returns X = Y = 0 when the position reference has
\* xw <= 0 or yh <= 0, and width = height = 0 when the size reference has
\* w <= 0 or h <= 0; each pair is decided by its own reference alone, the
\* other pair being what the leaf resolves against its reference.
C10_DegenerateReference ==
    (op = "relative.getRectangle") =>
        LET b == getRelativeTargetBounds(relativeToX, relativeToY, relativeToW,
                                         relativeToH, ref, arg)
        IN  /\ IF b.xw <= 0 \/ b.yh <= 0
               THEN out.x = 0 /\ out.y = 0
               ELSE /\ out.x = getRectangle(rect, Rectangle(b.x, b.y, b.xw, b.yh)).x
                    /\ out.y = getRectangle(rect, Rectangle(b.x, b.y, b.xw, b.yh)).y
            /\ IF b.w <= 0 \/ b.h <= 0
               THEN out.w = 0 /\ out.h = 0
               ELSE /\ out.w = getRectangle(rect, Rectangle(b.x, b.y, b.w, b.h)).w
                    /\ out.h = getRectangle(rect, Rectangle(b.x, b.y, b.w, b.h)).h

\* C10's case: a width reference of width 0 under a position reference of
\* positive extents: the size is zero, the position is not
C10_Witness ==
    /\ op = "relative.getRectangle" /\ ~isEmpty(ref)
    /\ arg = SomeLayout /\ relativeToW = ComponentB /\ relativeToH = 0
    /\ relativeToX = ComponentA /\ relativeToY = 0
    /\ rect.hMode = absoluteSize /\ rect.h # D(0)
    /\ out.w = 0 /\ out.h = 0 /\ out.x # 0 /\ out.y # 0

(***************************************************************************)
(* C11  updateFrom / updateFromDouble against a reference whose extent on  *)
(* an axis is zero or negative: every proportional raw value on that axis  *)
(* keeps the value it had, every other raw value on that axis and every    *)
(* raw value on the other axis is recomputed from the new rectangle, and   *)
(* no mode field changes.                                                  *)
(***************************************************************************)
\* the new rectangle handed to the last update, as four exact values
C11_New ==
    IF op = "updateFrom"
    THEN [x |-> D(arg.x), y |-> D(arg.y), w |-> D(arg.w), h |-> D(arg.h)]
    ELSE [x |-> arg[1], y |-> arg[2], w |-> arg[3], h |-> arg[4]]

\* the anchored edge of the new rectangle on one axis
C11_Edge(nx, nw, xMode_) ==
    IF HasBit(xMode_, anchorAtRightOrBottom) THEN RAdd(nx, nw)
    ELSE IF HasBit(xMode_, anchorAtCentre) THEN RAdd(nx, RDiv(nw, D(2)))
    ELSE nx

\* one axis after the update: proportional values kept when the extent is
\* not positive, everything else recomputed
C11_Axis(xOld, wOld, xNew, wNew, nx, nw, xMode_, wMode_, parentPos, parentSize) ==
    LET edge == C11_Edge(nx, nw, xMode_)
    IN  /\ wMode_ = proportionalSize =>
              wNew = (IF parentSize > 0 THEN RDiv(nw, D(parentSize)) ELSE wOld)
        /\ wMode_ = parentSizeMinusAbsolute => wNew = RSub(D(parentSize), nw)
        /\ wMode_ = absoluteSize => wNew = nw
        /\ HasBit(xMode_, proportionOfParentSize) =>
              xNew = (IF parentSize > 0
                      THEN RDiv(RSub(edge, D(parentPos)), D(parentSize))
                      ELSE xOld)
        /\ HasBit(xMode_, absoluteFromParentBottomRight) =>
              xNew = RSub(D(parentPos + parentSize), edge)
        /\ HasBit(xMode_, absoluteFromParentCentre) =>
              xNew = RSub(edge, D(parentPos + CDiv(parentSize, 2)))
        /\ HasBit(xMode_, absoluteFromParentTopLeft) =>
              xNew = RSub(edge, D(parentPos))

C11_PartialUpdate ==
    (op \in {"updateFrom", "updateFromDouble"} /\ (ref.w <= 0 \/ ref.h <= 0)) =>
        /\ Modes(rect) = Modes(pre)
        /\ C11_Axis(pre.x, pre.w, rect.x, rect.w, C11_New.x, C11_New.w,
                    pre.xMode, pre.wMode, ref.x, ref.w)
        /\ C11_Axis(pre.y, pre.h, rect.y, rect.h, C11_New.y, C11_New.h,
                    pre.yMode, pre.hMode, ref.y, ref.h)

\* an update against a reference of zero width and positive height that kept
\* a proportional x and moved the width and both values of the other axis
C11_Witness ==
    /\ op = "updateFromDouble"
    /\ ref.w <= 0 /\ ref.h > 0
    /\ HasBit(pre.xMode, proportionOfParentSize)
    /\ pre.wMode = parentSizeMinusAbsolute
    /\ rect.x = pre.x /\ rect.w # pre.w
    /\ rect.y # pre.y /\ rect.h # pre.h

(***************************************************************************)
(* C12  Forward position: against a reference of positive extent the       *)
(* position that getRectangleDouble computes on an axis is the basis       *)
(* position minus the anchor correction; the correction is the resolved    *)
(* size (right/bottom anchor), half of it (centre anchor) or nothing.      *)
(***************************************************************************)
\* the anchor correction on one axis, from the resolved size
C12_Correction(xMode_, wOut) ==
    IF HasBit(xMode_, anchorAtRightOrBottom) THEN wOut
    ELSE IF HasBit(xMode_, anchorAtCentre) THEN RDiv(wOut, D(2))
    ELSE D(0)

\* the basis position as stated: the proportional basis from the raw size,
\* the centre basis from the exact half of the reference extent
C12_StatedBasis(x_, w_, xMode_, refX, refW) ==
    IF HasBit(xMode_, proportionOfParentSize) THEN RAdd(D(refX), RMul(w_, D(refW)))
    ELSE IF HasBit(xMode_, absoluteFromParentBottomRight) THEN RSub(D(refX + refW), x_)
    ELSE IF HasBit(xMode_, absoluteFromParentCentre)
    THEN RAdd(x_, RAdd(D(refX), RDiv(D(refW), D(2))))
    ELSE RAdd(x_, D(refX))

\* the basis position with the proportional basis from the raw position and
\* the centre basis from the reference extent halved towards zero
C12_Basis(x_, xMode_, refX, refW) ==
    IF HasBit(xMode_, proportionOfParentSize) THEN RAdd(D(refX), RMul(x_, D(refW)))
    ELSE IF HasBit(xMode_, absoluteFromParentBottomRight) THEN RSub(D(refX + refW), x_)
    ELSE IF HasBit(xMode_, absoluteFromParentCentre)
    THEN RAdd(x_, D(refX + CDiv(refW, 2)))
    ELSE RAdd(x_, D(refX))

\* the statement as written
C12_ForwardPosition ==
    (op = "getRectangleDouble" /\ ref.w > 0 /\ ref.h > 0) =>
        /\ out.x = RSub(C12_StatedBasis(pre.x, pre.w, pre.xMode, ref.x, ref.w),
                        C12_Correction(pre.xMode, out.w))
        /\ out.y = RSub(C12_StatedBasis(pre.y, pre.h, pre.yMode, ref.y, ref.h),
                        C12_Correction(pre.yMode, out.h))

\* C12 amended: the proportional basis is refX + x_raw * refW and the centre
\* basis is x_raw + refX + refW / 2 with the integer division of the code
C12_ForwardPositionAmended ==
    (op = "getRectangleDouble" /\ ref.w > 0 /\ ref.h > 0) =>
        /\ out.x = RSub(C12_Basis(pre.x, pre.xMode, ref.x, ref.w),
                        C12_Correction(pre.xMode, out.w))
        /\ out.y = RSub(C12_Basis(pre.y, pre.yMode, ref.y, ref.h),
                        C12_Correction(pre.yMode, out.h))

\* a proportional x with raw x and width apart, centre-anchored with an odd
\* resolved width, next to a centre basis against an odd reference height
C12_Witness ==
    /\ op = "getRectangleDouble"
    /\ pre.xMode = anchorAtCentre + proportionOfParentSize
    /\ pre.x # pre.w
    /\ IsInt(out.w) /\ out.w[1] % 2 = 1
    /\ HasBit(pre.yMode, absoluteFromParentCentre)
    /\ ref.h % 2 = 1

(***************************************************************************)
(* C13  The documented meaning of "-50Rr" and "-50Rc": a rectangle built   *)
(* from a string whose x token is "-50Rr" resolves, against a reference    *)
(* of positive width, with its right-hand edge 50 pixels left of the       *)
(* reference's right-hand edge (x + width = refX + refW - 50); with        *)
(* "-50Rc" its centre lies there.                                          *)
(***************************************************************************)
C13_XToken == TokenAt(addTokens(src), 0)

C13_DocumentedMeaning ==
    (op = "getRectangleDouble" /\ ctor = "string" /\ ref.w > 0) =>
        /\ C13_XToken = <<"-", "5", "0", "R", "r">> =>
              RAdd(out.x, out.w) = D(ref.x + ref.w - 50)
        /\ C13_XToken = <<"-", "5", "0", "R", "c">> =>
              RAdd(out.x, RDiv(out.w, D(2))) = D(ref.x + ref.w - 50)

(***************************************************************************)
(* C14  Mode invariant: whatever the constructor (default, or a string     *)
(* whose tokens may carry several suffix letters) and whatever calls of    *)
(* setModes, the four setters, updateFrom, updateFromDouble, copy and      *)
(* assignment follow, xMode and yMode are one anchor bit plus one          *)
(* position-mode bit, and wMode and hMode are one of the three size modes. *)
(***************************************************************************)
C14_ModeInvariant ==
    /\ \E a \in AnchorPoint : \E b \in PositionMode : rect.xMode = a + b
    /\ \E a \in AnchorPoint : \E b \in PositionMode : rect.yMode = a + b
    /\ \E m \in SizeMode : rect.wMode = m
    /\ \E m \in SizeMode : rect.hMode = m

\* a y token with both 'r' and 'c' and a size token with both 'M' and '%',
\* after the full number of calls, the last one an update
C14_Witness ==
    /\ ctor = "string"
    /\ containsChar(TokenAt(addTokens(src), 1), "r")
    /\ containsChar(TokenAt(addTokens(src), 1), "c")
    /\ containsChar(TokenAt(addTokens(src), 2), "M")
    /\ containsChar(TokenAt(addTokens(src), 2), "%")
    /\ pc = MaxCalls
    /\ op = "updateFromDouble"
    /\ rect # PositionedRectangleFromString(src)

(***************************************************************************)
(* C15  No evaluation operation of RelativePositionedRectangle             *)
(* (getRectangle, getRectangleDouble, toXY, getXY) hands an empty          *)
(* reference rectangle to PositionedRectangle::getRectangle or             *)
(* getRectangleDouble, whatever the parentArea and the referenced          *)
(* elements: the assertion ! target.isEmpty() holds at every call.         *)
(***************************************************************************)
C15_LeafPrecondition ==
    op \in {"relative.getRectangle", "relative.getRectangleDouble",
            "relative.toXY", "relative.getXY"} =>
        \A i \in 1..Len(leafTargets) : ~isEmpty(leafTargets[i])

(***************************************************************************)
(* C16  Relative round trip: when both reference rectangles have positive  *)
(* width and height and the integer rectangle A has a non-negative width   *)
(* and height, getRectangle after updateFrom (A.x, A.y, A.w, A.h), with    *)
(* the same parentArea and layout, returns A; the position reference and   *)
(* the size reference may differ.                                          *)
(***************************************************************************)
\* the reference frame of the last relative updateFrom
C16_Bounds ==
    getRelativeTargetBounds(relativeToX, relativeToY, relativeToW, relativeToH,
                            ref, arg.layout)

C16_RelativeRoundTrip ==
    (/\ op = "relative.updateFrom"
     /\ C16_Bounds.xw > 0 /\ C16_Bounds.yh > 0 /\ C16_Bounds.w > 0 /\ C16_Bounds.h > 0
     /\ arg.position.w >= 0 /\ arg.position.h >= 0) =>
        getRectangleRelative(rect, relativeToX, relativeToY, relativeToW, relativeToH,
                             ref, arg.layout) = arg.position

\* the same round trip where the position reference and the size reference
\* have the same width and height
C16_SameReferenceRoundTrip ==
    (/\ op = "relative.updateFrom"
     /\ C16_Bounds.xw > 0 /\ C16_Bounds.yh > 0
     /\ C16_Bounds.w = C16_Bounds.xw /\ C16_Bounds.h = C16_Bounds.yh
     /\ arg.position.w >= 0 /\ arg.position.h >= 0) =>
        getRectangleRelative(rect, relativeToX, relativeToY, relativeToW, relativeToH,
                             ref, arg.layout) = arg.position

====
